---- MODULE Spec2Model ----
(***************************************************************************)
(* The viewshed service: POST /viewshed (AppController.calculateViewshed)  *)
(* calling AppService.runPythonViewshed, which validates the request,      *)
(* spawns one python3 process and turns its exit code and stdout into a    *)
(* resolved or rejected promise.                                           *)
(*                                                                         *)
(* Text is modelled by TLA+ strings, handled with Len, SubSeq and \o, so   *)
(* that trim/split/includes/JSON.parse are computed on the characters.     *)
(* Numbers are fixed-point integers in units of 10^-7 (180 degrees is      *)
(* 1800000000), so that -96.21095 and 41.1982 are exact.                   *)
(***************************************************************************)
EXTENDS Integers, Sequences, FiniteSets, TLC

(***************************************************************************)
(* JavaScript values (request bodies, parsed engine output, reply bodies)  *)
(***************************************************************************)
Undefined == [t |-> "undefined"]
JNull == [t |-> "null"]
JBool(b) == [t |-> "bool", b |-> b]
JNum(n) == [t |-> "num", n |-> n]
JStr(s) == [t |-> "str", s |-> s]
JArr(items) == [t |-> "arr", items |-> items]
JObj(props) == [t |-> "obj", props |-> props]

\* obj.key : undefined when the key is absent or obj is a primitive.  (On
\* null and undefined the access throws; the callers test for that first.)
Get(obj, key) ==
    IF obj.t = "obj" /\ key \in DOMAIN obj.props THEN obj.props[key] ELSE Undefined

Nullish(v) == v.t \in {"undefined", "null"}

(***************************************************************************)
(* String primitives of the runtime                                        *)
(***************************************************************************)
CharAt(s, i) == SubSeq(s, i, i)

\* White space removed by String.prototype.trim (the ASCII part of it).
TrimWhitespace == {" ", "\t", "\n", "\r", "\f"}
\* White space JSON.parse skips between tokens.
JsonWhitespace == {" ", "\t", "\n", "\r"}

RECURSIVE stripStart(_, _)
stripStart(s, ws) ==
    IF Len(s) > 0 /\ CharAt(s, 1) \in ws THEN stripStart(SubSeq(s, 2, Len(s)), ws) ELSE s

RECURSIVE stripEnd(_, _)
stripEnd(s, ws) ==
    IF Len(s) > 0 /\ CharAt(s, Len(s)) \in ws
    THEN stripEnd(SubSeq(s, 1, Len(s) - 1), ws) ELSE s

trim(s) == stripEnd(stripStart(s, TrimWhitespace), TrimWhitespace)

\* s.split(sep) for a one-character separator: always at least one piece.
RECURSIVE split(_, _)
split(s, sep) ==
    LET hits == {i \in 1..Len(s) : CharAt(s, i) = sep} IN
    IF hits = {} THEN <<s>>
    ELSE LET i == CHOOSE k \in hits : \A m \in hits : k <= m IN
         <<SubSeq(s, 1, i - 1)>> \o split(SubSeq(s, i + 1, Len(s)), sep)

\* array.pop() of a non-empty array (split never returns an empty one).
pop(arr) == arr[Len(arr)]

includes(s, p) ==
    \E i \in 1..(Len(s) - Len(p) + 1) : SubSeq(s, i, i + Len(p) - 1) = p

startsWith(s, p) == Len(p) <= Len(s) /\ SubSeq(s, 1, Len(p)) = p

\* Buffer.prototype.toString(): UTF-8 decoding of the bytes of one chunk.  A
\* Buffer is written as the string of its bytes; besides ASCII the bytes are
\* C3 ("Ã") and A9 ("©"), which together encode "é".  A lead byte without its
\* continuation byte, or a continuation byte on its own, decodes to the
\* replacement character U+FFFD.
LeadByte == "Ã"
ContinuationByte == "©"
ReplacementChar == "�"

RECURSIVE Utf8Decode(_)
Utf8Decode(bytes) ==
    LET high == {i \in 1..Len(bytes) : CharAt(bytes, i) \in {LeadByte, ContinuationByte}} IN
    IF high = {} THEN bytes
    ELSE LET i == CHOOSE k \in high : \A m \in high : k <= m
             pair == i < Len(bytes) /\ SubSeq(bytes, i, i + 1) = LeadByte \o ContinuationByte
         IN  SubSeq(bytes, 1, i - 1)
             \o (IF pair THEN "é" ELSE ReplacementChar)
             \o Utf8Decode(SubSeq(bytes, IF pair THEN i + 2 ELSE i + 1, Len(bytes)))

BufferToString(data) == Utf8Decode(data)

(***************************************************************************)
(* Numbers                                                                 *)
(***************************************************************************)
Digit(d) == SubSeq("0123456789", d + 1, d + 1)

RECURSIVE NatToString(_)
NatToString(n) == IF n < 10 THEN Digit(n) ELSE NatToString(n \div 10) \o Digit(n % 10)

\* The seven fraction digits of f / 10^7, without the trailing zeros.
RECURSIVE ZeroPad(_, _)
ZeroPad(s, width) == IF Len(s) >= width THEN s ELSE ZeroPad("0" \o s, width)

FracDigits(f) == stripEnd(ZeroPad(NatToString(f), 7), {"0"})

\* Number.prototype.toString of the number n / 10^7: plain decimal notation,
\* except below 10^-6, where the runtime prints exponent notation.
NumberToString(n) ==
    LET a == IF n < 0 THEN -n ELSE n
        sign == IF n < 0 THEN "-" ELSE ""
        ip == a \div 10000000
        fp == a % 10000000
    IN  IF n = 0 THEN "0"
        ELSE IF a < 10 THEN sign \o Digit(a) \o "e-7"
        ELSE sign \o NatToString(ip) \o (IF fp = 0 THEN "" ELSE "." \o FracDigits(fp))

\* Strings that convert to a number (StringToNumber); every other string of
\* the model converts to NaN.
NumericStrings == ("200" :> 2000000000) @@ ("45" :> 450000000)

\* ToNumber, as applied by the relational operators < and >.
ToNumber(v) ==
    CASE v.t = "num" -> [nan |-> FALSE, n |-> v.n]
      [] v.t = "null" -> [nan |-> FALSE, n |-> 0]
      [] v.t = "bool" -> [nan |-> FALSE, n |-> IF v.b THEN 10000000 ELSE 0]
      [] v.t = "str" /\ v.s \in DOMAIN NumericStrings ->
            [nan |-> FALSE, n |-> NumericStrings[v.s]]
      [] OTHER -> [nan |-> TRUE, n |-> 0]

\* v < k and v > k for a number k: false whenever v converts to NaN.
LessThan(v, k) == LET x == ToNumber(v) IN ~x.nan /\ x.n < k
GreaterThan(v, k) == LET x == ToNumber(v) IN ~x.nan /\ x.n > k

\* ToBoolean
Truthy(v) ==
    CASE v.t \in {"undefined", "null"} -> FALSE
      [] v.t = "num" -> v.n # 0
      [] v.t = "str" -> v.s # ""
      [] v.t = "bool" -> v.b
      [] OTHER -> TRUE

(***************************************************************************)
(* Exceptions and results of operations that may throw                     *)
(***************************************************************************)
Exc(name, message) == [name |-> name, message |-> message]
NoExc == Exc("", "")

Ok(v) == [ok |-> TRUE, value |-> v, exc |-> NoExc]
Throw(e) == [ok |-> FALSE, value |-> Undefined, exc |-> e]

\* v.toString() for the values a request body can hold.
toString(v) ==
    CASE v.t = "undefined" ->
            Throw(Exc("TypeError", "Cannot read properties of undefined (reading 'toString')"))
      [] v.t = "null" ->
            Throw(Exc("TypeError", "Cannot read properties of null (reading 'toString')"))
      [] v.t = "num" -> Ok(NumberToString(v.n))
      [] v.t = "str" -> Ok(v.s)
      [] v.t = "bool" -> Ok(IF v.b THEN "true" ELSE "false")
      [] OTHER -> Ok("[object Object]")

(***************************************************************************)
(* JSON.parse                                                              *)
(*                                                                         *)
(* The JSON texts of the model and the values they encode.  A text outside *)
(* this table is not valid JSON.                                           *)
(***************************************************************************)
Feature(props) == JObj([type |-> JStr("Feature"), properties |-> JObj(props)])

FC3Text ==
    "{\"type\":\"FeatureCollection\",\"features\":["
    \o "{\"type\":\"Feature\",\"properties\":{\"type\":\"observer\",\"units\":\"feet\"}},"
    \o "{\"type\":\"Feature\",\"properties\":{\"type\":\"viewshed\",\"visible\":true}},"
    \o "{\"type\":\"Feature\",\"properties\":{\"type\":\"analysis_range\",\"units\":\"feet\"}}]}"

FC3 ==
    JObj([type |-> JStr("FeatureCollection"),
          features |-> JArr(<<
              Feature([type |-> JStr("observer"), units |-> JStr("feet")]),
              Feature([type |-> JStr("viewshed"), visible |-> JBool(TRUE)]),
              Feature([type |-> JStr("analysis_range"), units |-> JStr("feet")])>>)])

FC0Text == "{\"type\":\"FeatureCollection\",\"features\":[]}"
FC0 == JObj([type |-> JStr("FeatureCollection"), features |-> JArr(<<>>)])

\* A FeatureCollection whose text holds a character outside ASCII: the bytes
\* the engine writes, the text they decode to, and the text two replacement
\* characters stand in when the two bytes are decoded apart.
FCAccentBytes ==
    "{\"type\":\"FeatureCollection\",\"features\":[],\"name\":\""
    \o LeadByte \o ContinuationByte \o "\"}"
FCAccentText == "{\"type\":\"FeatureCollection\",\"features\":[],\"name\":\"é\"}"
FCBrokenText ==
    "{\"type\":\"FeatureCollection\",\"features\":[],\"name\":\""
    \o ReplacementChar \o ReplacementChar \o "\"}"

FCNamed(name) ==
    JObj([type |-> JStr("FeatureCollection"), features |-> JArr(<<>>), name |-> JStr(name)])

\* FeatureCollections the structural test accepts although a feature has a
\* tag outside the three of the response type, or lacks the fields of its tag.
FCBadTagText ==
    "{\"type\":\"FeatureCollection\",\"features\":["
    \o "{\"type\":\"Feature\",\"properties\":{\"type\":\"building\"}}]}"
FCBadTag ==
    JObj([type |-> JStr("FeatureCollection"),
          features |-> JArr(<<Feature([type |-> JStr("building")])>>)])

FCNoUnitsText ==
    "{\"type\":\"FeatureCollection\",\"features\":["
    \o "{\"type\":\"Feature\",\"properties\":{\"type\":\"observer\"}}]}"
FCNoUnits ==
    JObj([type |-> JStr("FeatureCollection"),
          features |-> JArr(<<Feature([type |-> JStr("observer")])>>)])

JsonValueOf ==
    (FC3Text :> FC3) @@ (FC0Text :> FC0)
    @@ (FCAccentText :> FCNamed("é"))
    @@ (FCBrokenText :> FCNamed(ReplacementChar \o ReplacementChar))
    @@ (FCBadTagText :> FCBadTag) @@ (FCNoUnitsText :> FCNoUnits)
    @@ ("null" :> JNull)
    @@ ("5" :> JNum(50000000))
    @@ ("[]" :> JArr(<<>>))
    @@ ("{\"type\":\"Feature\"}" :> JObj([type |-> JStr("Feature")]))
    @@ ("{\"type\":\"FeatureCollection\"}" :> JObj([type |-> JStr("FeatureCollection")]))
    @@ ("{\"type\":\"FeatureCollection\",\"features\":{\"count\":0}}" :>
            JObj([type |-> JStr("FeatureCollection"),
                  features |-> JObj([count |-> JNum(0)])]))
    @@ ("{\"error\":\"outside the DSM extent\"}" :>
            JObj([error |-> JStr("outside the DSM extent")]))

JsonStrip(s) == stripEnd(stripStart(s, JsonWhitespace), JsonWhitespace)

\* Characters a JSON value can begin with.  The message model below covers
\* the texts that are valid JSON, valid JSON followed by more text, a JSON
\* text cut short, and text whose first character cannot begin a value (see
\* ParseDomainOK).
JsonStartChars ==
    {"{", "[", "\"", "-", "t", "f", "n", "0", "1", "2", "3", "4", "5", "6", "7", "8", "9"}

IsProperPrefix(p, t) == Len(p) < Len(t) /\ SubSeq(t, 1, Len(p)) = p

QuoteCount(s) == Cardinality({i \in 1..Len(s) : CharAt(s, i) = "\""})

\* rest is a JSON text of the table cut short inside a string.
CutInString(rest) ==
    /\ QuoteCount(rest) % 2 = 1
    /\ \E t \in DOMAIN JsonValueOf : IsProperPrefix(rest, t)

\* rest is a JSON text of the table cut short between two tokens.
CutBetweenTokens(rest) ==
    LET head == stripEnd(rest, JsonWhitespace) IN
    /\ head # ""
    /\ QuoteCount(head) % 2 = 0
    /\ CharAt(head, Len(head)) \in {"{", "[", ",", ":", "\"", "}", "]"}
    /\ \E t \in DOMAIN JsonValueOf : IsProperPrefix(head, t)

\* The message of the SyntaxError JSON.parse throws on src (V8 of Node 20):
\* it quotes the offending character and up to ten characters of src on
\* either side of it; a src shorter than 21 characters is quoted whole.
JsonErrorMessage(src) ==
    LET rest == stripStart(src, JsonWhitespace)
        pos == Len(src) - Len(rest)         \* 0-based index of the first token
        L == Len(src)
        done == {k \in 1..(Len(rest) - 1) : SubSeq(rest, 1, k) \in DOMAIN JsonValueOf}
    IN  IF rest = "" THEN "Unexpected end of JSON input"
        ELSE IF src \in {"NaN", "Infinity", "undefined"}
        THEN "\"" \o src \o "\" is not valid JSON"
        ELSE IF done # {}
        THEN LET k == CHOOSE x \in done : TRUE
                 after == SubSeq(rest, k + 1, Len(rest))
                 junk == L - Len(stripStart(after, JsonWhitespace))
             IN  "Unexpected non-whitespace character after JSON at position "
                 \o NatToString(junk)
        ELSE IF CutInString(rest)
        THEN "Unterminated string in JSON at position " \o NatToString(L)
        ELSE IF CutBetweenTokens(rest)
        THEN "Unexpected end of JSON input"
        ELSE LET token == "Unexpected token '" \o CharAt(src, pos + 1) \o "', " IN
             IF L < 21
             THEN token \o "\"" \o src \o "\" is not valid JSON"
             ELSE IF pos < 10
             THEN token \o "\"" \o SubSeq(src, 1, pos + 10) \o "\"... is not valid JSON"
             ELSE IF pos < L - 10
             THEN token \o "...\"" \o SubSeq(src, pos - 9, pos + 10)
                  \o "\"... is not valid JSON"
             ELSE token \o "...\"" \o SubSeq(src, pos - 9, L) \o "\" is not valid JSON"

JSONparse(src) ==
    IF JsonStrip(src) \in DOMAIN JsonValueOf
    THEN Ok(JsonValueOf[JsonStrip(src)])
    ELSE Throw(Exc("SyntaxError", JsonErrorMessage(src)))

(***************************************************************************)
(* AppService.runPythonViewshed                                            *)
(***************************************************************************)
DSM_PATH == "uploads/usgs_l_lasda.tif"

BadRequestException(message) == Exc("BadRequestException", message)
InternalServerErrorException(message) == Exc("InternalServerErrorException", message)

\* CheckParams with the checks of the fields before the check of the file.
CheckParamsFieldsFirst(body, dsm) ==
    LET lng == Get(body, "lng")
        lat == Get(body, "lat")
        mountHeightFt == Get(body, "mountHeightFt")
    IN  IF Nullish(body)
        THEN Throw(Exc("TypeError", "Cannot destructure property 'lng' of '"
                       \o (IF body.t = "null" THEN "object null" ELSE body.t)
                       \o "' as it is " \o body.t \o "."))
        ELSE IF LessThan(lng, -1800000000) \/ GreaterThan(lng, 1800000000)
                \/ LessThan(lat, -900000000) \/ GreaterThan(lat, 900000000)
        THEN Throw(BadRequestException("Invalid longitude or latitude values"))
        ELSE IF ~Truthy(mountHeightFt)
        THEN Throw(BadRequestException("Mount height is required"))
        ELSE IF ~dsm
        THEN Throw(BadRequestException("DSM file not found: " \o DSM_PATH))
        ELSE Ok(Undefined)

\* The part of runPythonViewshed before the promise is created: the
\* destructuring of the parameter and the three checks, in the code's order.
\* dsm is the result of existsSync(DSM_PATH).
CheckParams(body, dsm) ==
    LET lng == Get(body, "lng")
        lat == Get(body, "lat")
        mountHeightFt == Get(body, "mountHeightFt")
    IN  IF Nullish(body)
        THEN Throw(Exc("TypeError", "Cannot destructure property 'lng' of '"
                       \o (IF body.t = "null" THEN "object null" ELSE body.t)
                       \o "' as it is " \o body.t \o "."))
        ELSE IF ~dsm
        THEN Throw(BadRequestException("DSM file not found: " \o DSM_PATH))
        ELSE IF LessThan(lng, -1800000000) \/ GreaterThan(lng, 1800000000)
                \/ LessThan(lat, -900000000) \/ GreaterThan(lat, 900000000)
        THEN Throw(BadRequestException("Invalid longitude or latitude values"))
        ELSE IF ~Truthy(mountHeightFt)
        THEN Throw(BadRequestException("Mount height is required"))
        ELSE Ok(Undefined)

\* The argument array of spawn('python3', [...]), built left to right; a
\* toString() that throws leaves the executor before spawn is called.
SpawnArgs(body) ==
    LET lng == toString(Get(body, "lng"))
        lat == toString(Get(body, "lat"))
        mountHeightFt == toString(Get(body, "mountHeightFt"))
    IN  IF ~lng.ok THEN [ok |-> FALSE, args |-> <<>>, exc |-> lng.exc]
        ELSE IF ~lat.ok THEN [ok |-> FALSE, args |-> <<>>, exc |-> lat.exc]
        ELSE IF ~mountHeightFt.ok THEN [ok |-> FALSE, args |-> <<>>, exc |-> mountHeightFt.exc]
        ELSE [ok |-> TRUE,
              args |-> <<"./process_dsm.py", DSM_PATH, lng.value, lat.value,
                         mountHeightFt.value>>,
              exc |-> NoExc]

IsArray(v) == v.t = "arr"

\* LastLine without the trim.
LastLineUntrimmed(stdoutData) == pop(split(stdoutData, "\n"))

\* The last line of the trimmed output.
LastLine(stdoutData) == pop(split(trim(stdoutData), "\n"))

\* ParseOutput without the test of type and features.
ParseOutputUnvalidated(stdoutData) ==
    LET lastLine == LastLine(stdoutData)
        parsed == JSONparse(lastLine)
    IN  IF lastLine = ""
        THEN Throw(Exc("Error", "Empty response from Python script"))
        ELSE IF ~parsed.ok THEN Throw(parsed.exc)
        ELSE Ok(parsed.value)

\* ParseOutput without the test of features.
ParseOutputTypeOnly(stdoutData) ==
    LET lastLine == LastLine(stdoutData)
        parsed == JSONparse(lastLine)
        result == parsed.value
    IN  IF lastLine = ""
        THEN Throw(Exc("Error", "Empty response from Python script"))
        ELSE IF ~parsed.ok THEN Throw(parsed.exc)
        ELSE IF Nullish(result)
        THEN Throw(Exc("TypeError", "Cannot read properties of " \o result.t
                       \o " (reading 'type')"))
        ELSE IF Get(result, "type") # JStr("FeatureCollection")
        THEN Throw(Exc("Error", "Invalid GeoJSON format"))
        ELSE Ok(result)

\* The try block of the 'close' handler: the value passed to resolve, or the
\* exception that reaches the catch clause.
ParseOutput(stdoutData) ==
    LET lastLine == LastLine(stdoutData)
        parsed == JSONparse(lastLine)
        result == parsed.value
    IN  IF lastLine = ""
        THEN Throw(Exc("Error", "Empty response from Python script"))
        ELSE IF ~parsed.ok THEN Throw(parsed.exc)
        ELSE IF Nullish(result)
        THEN Throw(Exc("TypeError", "Cannot read properties of " \o result.t
                       \o " (reading 'type')"))
        ELSE IF Get(result, "type") # JStr("FeatureCollection")
                \/ ~IsArray(Get(result, "features"))
        THEN Throw(Exc("Error", "Invalid GeoJSON format"))
        ELSE Ok(result)

\* Settlements of the promise
Pending == [state |-> "pending", value |-> Undefined, exc |-> NoExc]
Resolved(v) == [state |-> "resolved", value |-> v, exc |-> NoExc]
Rejected(e) == [state |-> "rejected", value |-> Undefined, exc |-> e]

\* OnClose without the test of the exit code.
OnCloseIgnoringCode(code, stdoutData) ==
    LET r == ParseOutput(stdoutData) IN
    IF r.ok THEN Resolved(r.value)
    ELSE Rejected(InternalServerErrorException(
             "Invalid viewshed format: " \o r.exc.message))

\* pythonProcess.on('close', (code) => ...): what the handler passes to
\* resolve or reject.
OnClose(code, stdoutData) ==
    IF code # JNum(0)
    THEN Rejected(InternalServerErrorException("Viewshed calculation failed"))
    ELSE LET r == ParseOutput(stdoutData) IN
         IF r.ok THEN Resolved(r.value)
         ELSE Rejected(InternalServerErrorException(
                  "Invalid viewshed format: " \o r.exc.message))

\* pythonProcess.on('error', (err) => ...)
OnError ==
    Rejected(InternalServerErrorException("Failed to start viewshed calculation"))

(***************************************************************************)
(* AppController.calculateViewshed                                         *)
(***************************************************************************)
HttpStatus == [OK |-> 200, BAD_REQUEST |-> 400, INTERNAL_SERVER_ERROR |-> 500]

\* The reply sent once the awaited promise has settled: reply.send(geojson)
\* on the default status, or the catch block.
ReplyFor(settled) ==
    IF settled.state = "resolved"
    THEN [status |-> HttpStatus.OK, body |-> settled.value]
    ELSE LET error == settled.exc
             message == IF error.message # "" THEN error.message
                        ELSE "An error occurred while processing the viewshed."
         IN  [status |-> IF includes(error.message, "outside the DSM extent")
                         THEN HttpStatus.BAD_REQUEST
                         ELSE HttpStatus.INTERNAL_SERVER_ERROR,
              body |-> JObj([error |-> JStr(message)])]

(***************************************************************************)
(* Bounds and inputs                                                       *)
(***************************************************************************)
\* Requests the service receives, possibly in flight together.
NumReq == 2
\* 'data' events delivered in a run, over all processes and both streams.
MaxData == 3

Req == 1..NumReq

\* Request bodies.  ReadmeBody is the body of the README and of the
\* end-to-end scenario; the service reads the height from mountHeightFt.
ReadmeBody ==
    JObj([lng |-> JNum(-962109500), lat |-> JNum(411982000), mountHeight |-> JNum(300000000)])
FtBody ==
    JObj([lng |-> JNum(-962109500), lat |-> JNum(411982000), mountHeightFt |-> JNum(300000000)])
BothBody ==
    JObj([lng |-> JNum(1800000000), lat |-> JNum(-900000000),
          mountHeight |-> JNum(300000000), mountHeightFt |-> JNum(300000000)])
Lat95Body ==
    JObj([lng |-> JNum(-962109500), lat |-> JNum(950000000),
          mountHeight |-> JNum(300000000), mountHeightFt |-> JNum(300000000)])
LngOutBody ==
    JObj([lng |-> JNum(-1800000001), lat |-> JNum(411982000),
          mountHeight |-> JNum(300000000), mountHeightFt |-> JNum(300000000)])
ZeroHeightBody ==
    JObj([lng |-> JNum(-962109500), lat |-> JNum(411982000),
          mountHeight |-> JNum(0), mountHeightFt |-> JNum(0)])
NullHeightBody ==
    JObj([lng |-> JNum(-962109500), lat |-> JNum(411982000),
          mountHeight |-> JNull, mountHeightFt |-> JNull])
NoHeightBody ==
    JObj([lng |-> JNum(-962109500), lat |-> JNum(411982000)])
NoLngBody ==
    JObj([lat |-> JNum(411982000),
          mountHeight |-> JNum(300000000), mountHeightFt |-> JNum(300000000)])
StringLngBody ==
    JObj([lng |-> JStr("abc"), lat |-> JNum(411982000),
          mountHeight |-> JNum(300000000), mountHeightFt |-> JNum(300000000)])

Bodies ==
    {ReadmeBody, FtBody, BothBody, Lat95Body, LngOutBody, ZeroHeightBody,
     NullHeightBody, NoHeightBody, NoLngBody, StringLngBody, Undefined}

\* Bodies with the optional maxDistance, and one with a height below 10^-6.
NegDistanceBody ==
    JObj([lng |-> JNum(-962109500), lat |-> JNum(411982000),
          mountHeight |-> JNum(300000000), mountHeightFt |-> JNum(300000000),
          maxDistance |-> JNum(-50000000)])
StringDistanceBody ==
    JObj([lng |-> JNum(-962109500), lat |-> JNum(411982000),
          mountHeight |-> JNum(300000000), mountHeightFt |-> JNum(300000000),
          maxDistance |-> JStr("far")])
TinyHeightBody ==
    JObj([lng |-> JNum(-962109500), lat |-> JNum(411982000),
          mountHeight |-> JNum(1), mountHeightFt |-> JNum(1)])

IntakeBodies == Bodies \cup {NegDistanceBody, StringDistanceBody, TinyHeightBody}

\* Chunks the engine writes to its standard output and standard error.
ProgressLine == "Calculating viewshed...\n"
WarningLine == "Warning: no data\n"
ExtentLine == "Error: Point is outside the DSM extent\n"
TraceLine == "Traceback (most recent call last):\n"

StdoutChunks == {ProgressLine, FC3Text \o "\n", WarningLine}
StderrChunks == {ExtentLine, TraceLine}

\* A wider choice of standard-output chunks, for the runs that follow one
\* request through every shape of engine output.
EngineChunks ==
    StdoutChunks \cup
    {FC0Text, "\n", "  \r\n", "\f", "null\n", "5\n", "[]\n",
     "{\"type\":\"Feature\"}\n",
     "{\"type\":\"FeatureCollection\"}\n",
     "{\"type\":\"FeatureCollection\",\"features\":{\"count\":0}}\n",
     "{\"error\":\"outside the DSM extent\"}\n",
     "  " \o FC0Text \o " \n",
     "Point is outside the DSM extent\n"}

\* Exit codes of a process that ran (null: killed by a signal) and the code
\* 'close' carries after a failed spawn (a negative errno).
ExitCodes == {JNum(0), JNum(10000000), JNull}
SpawnFailCode == JNum(-20000000)

(***************************************************************************)
(* State                                                                   *)
(***************************************************************************)
VARIABLES
    dsmExists,      \* existsSync(DSM_PATH)
    pc,             \* per request: "idle", "awaiting" (the controller awaits), "replied"
    body,           \* per request: the body it came with
    proc,           \* per request: its subordinate process: state "none", "running",
                    \* "spawnfail" ('error' due), "errored" ('close' due), "closed";
                    \* written: the bytes it has put on its standard output;
                    \* spawns: the calls of spawn made for the request
    stdoutData,     \* per request: the accumulated standard output
    stderrData,     \* per request: the accumulated standard error
    promise,        \* per request: the promise runPythonViewshed returned
    replies,        \* per request: the replies sent, in order
    nData           \* 'data' events delivered so far

vars == <<dsmExists, pc, body, proc, stdoutData, stderrData, promise, replies, nData>>

NoProc ==
    [state |-> "none", started |-> FALSE, args |-> <<>>, code |-> Undefined, written |-> "",
     spawns |-> 0]
NoPromise == [state |-> "none", value |-> Undefined, exc |-> NoExc]

Init ==
    /\ dsmExists \in BOOLEAN
    /\ pc = [r \in Req |-> "idle"]
    /\ body = [r \in Req |-> Undefined]
    /\ proc = [r \in Req |-> NoProc]
    /\ stdoutData = [r \in Req |-> ""]
    /\ stderrData = [r \in Req |-> ""]
    /\ promise = [r \in Req |-> NoPromise]
    /\ replies = [r \in Req |-> <<>>]
    /\ nData = 0

\* Settle with the last settlement winning.
SettleAgain(r, outcome) ==
    /\ promise' = [promise EXCEPT ![r] = outcome]
    /\ replies' = [replies EXCEPT ![r] = <<ReplyFor(outcome)>>]
    /\ pc' = [pc EXCEPT ![r] = "replied"]

\* Settle with every settlement taking effect and answered.
SettleEveryTime(r, outcome) ==
    /\ promise' = [promise EXCEPT ![r] = outcome]
    /\ replies' = [replies EXCEPT ![r] = Append(@, ReplyFor(outcome))]
    /\ pc' = [pc EXCEPT ![r] = "replied"]

\* resolve / reject: the first settlement wins, and the controller's await
\* then continues (in the same turn of the event loop) and sends the reply.
Settle(r, outcome) ==
    IF promise[r].state = "pending"
    THEN /\ promise' = [promise EXCEPT ![r] = outcome]
         /\ replies' = [replies EXCEPT ![r] = Append(@, ReplyFor(outcome))]
         /\ pc' = [pc EXCEPT ![r] = "replied"]
    ELSE UNCHANGED <<promise, replies, pc>>

\* POST /viewshed with body b: calculateViewshed calls runPythonViewshed,
\* which throws (the promise is rejected and the catch block replies) or
\* spawns the process and leaves the controller awaiting.  started tells
\* whether the operating system could start python3.
Request(r, b, started) ==
    /\ pc[r] = "idle"
    /\ body' = [body EXCEPT ![r] = b]
    /\ LET checked == CheckParams(b, dsmExists)
           spawn == SpawnArgs(b)
       IN  IF ~checked.ok \/ ~spawn.ok
           THEN LET outcome == Rejected(IF ~checked.ok THEN checked.exc ELSE spawn.exc) IN
                /\ promise' = [promise EXCEPT ![r] = outcome]
                /\ replies' = [replies EXCEPT ![r] = Append(@, ReplyFor(outcome))]
                /\ pc' = [pc EXCEPT ![r] = "replied"]
                /\ UNCHANGED proc
           ELSE /\ proc' = [proc EXCEPT ![r] =
                        [state |-> IF started THEN "running" ELSE "spawnfail",
                         started |-> started, args |-> spawn.args, code |-> Undefined,
                         written |-> "", spawns |-> 1]]
                /\ promise' = [promise EXCEPT ![r] = Pending]
                /\ pc' = [pc EXCEPT ![r] = "awaiting"]
                /\ UNCHANGED replies
    /\ UNCHANGED <<dsmExists, stdoutData, stderrData, nData>>

\* StdoutData with one buffer for all the requests.
StdoutDataShared(r, chunk) ==
    /\ proc[r].state = "running"
    /\ nData < MaxData
    /\ proc' = [proc EXCEPT ![r].written = @ \o chunk]
    /\ stdoutData' = [q \in Req |-> stdoutData[q] \o BufferToString(chunk)]
    /\ nData' = nData + 1
    /\ UNCHANGED <<dsmExists, pc, body, stderrData, promise, replies>>

\* pythonProcess.stdout.on('data', ...): the process has written the bytes
\* of chunk, and the handler appends their text to the buffer.
StdoutData(r, chunk) ==
    /\ proc[r].state = "running"
    /\ nData < MaxData
    /\ proc' = [proc EXCEPT ![r].written = @ \o chunk]
    /\ stdoutData' = [stdoutData EXCEPT ![r] = @ \o BufferToString(chunk)]
    /\ nData' = nData + 1
    /\ UNCHANGED <<dsmExists, pc, body, stderrData, promise, replies>>

\* pythonProcess.stderr.on('data', ...); the copy written to the host's own
\* standard error is not part of the state.
StderrData(r, chunk) ==
    /\ proc[r].state = "running"
    /\ nData < MaxData
    /\ stderrData' = [stderrData EXCEPT ![r] = @ \o BufferToString(chunk)]
    /\ nData' = nData + 1
    /\ UNCHANGED <<dsmExists, pc, body, proc, stdoutData, promise, replies>>

\* 'error': emitted when the process could not be spawned.
ProcError(r) ==
    /\ proc[r].state = "spawnfail"
    /\ proc' = [proc EXCEPT ![r].state = "errored"]
    /\ Settle(r, OnError)
    /\ UNCHANGED <<dsmExists, body, stdoutData, stderrData, nData>>

\* ProcClose starting the engine once more after a first failure.
ProcCloseRetry(r, code) ==
    /\ \/ proc[r].state = "running" /\ code \in ExitCodes
       \/ proc[r].state = "errored" /\ code = SpawnFailCode
    /\ IF proc[r].started /\ code # JNum(0) /\ proc[r].spawns < 2
       THEN /\ proc' = [proc EXCEPT ![r].written = "", ![r].spawns = @ + 1]
            /\ UNCHANGED <<promise, replies, pc>>
       ELSE /\ proc' = [proc EXCEPT ![r].state = "closed", ![r].code = code]
            /\ Settle(r, OnClose(code, stdoutData[r]))
    /\ UNCHANGED <<dsmExists, body, stdoutData, stderrData, nData>>

\* ProcClose with no reject after a non-zero exit code.
ProcCloseSilentOnFailure(r, code) ==
    /\ \/ proc[r].state = "running" /\ code \in ExitCodes
       \/ proc[r].state = "errored" /\ code = SpawnFailCode
    /\ proc' = [proc EXCEPT ![r].state = "closed", ![r].code = code]
    /\ IF code # JNum(0)
       THEN UNCHANGED <<promise, replies, pc>>
       ELSE Settle(r, OnClose(code, stdoutData[r]))
    /\ UNCHANGED <<dsmExists, body, stdoutData, stderrData, nData>>

\* 'close': emitted once the process has ended and its streams are closed;
\* after a failed spawn it follows 'error'.
ProcClose(r, code) ==
    /\ \/ proc[r].state = "running" /\ code \in ExitCodes
       \/ proc[r].state = "errored" /\ code = SpawnFailCode
    /\ proc' = [proc EXCEPT ![r].state = "closed", ![r].code = code]
    /\ Settle(r, OnClose(code, stdoutData[r]))
    /\ UNCHANGED <<dsmExists, body, stdoutData, stderrData, nData>>

\* The DSM file is put in place or removed between requests.
DsmChange ==
    /\ dsmExists' = ~dsmExists
    /\ UNCHANGED <<pc, body, proc, stdoutData, stderrData, promise, replies, nData>>

Next ==
    \/ \E r \in Req, b \in Bodies, started \in BOOLEAN : Request(r, b, started)
    \/ \E r \in Req, chunk \in StdoutChunks : StdoutData(r, chunk)
    \/ \E r \in Req, chunk \in StderrChunks : StderrData(r, chunk)
    \/ \E r \in Req : ProcError(r)
    \/ \E r \in Req, code \in ExitCodes \cup {SpawnFailCode} : ProcClose(r, code)
    \/ DsmChange

Spec == Init /\ [][Next]_vars

\* One request, followed through every engine behaviour.
NextEngine ==
    \/ \E b \in {FtBody, ReadmeBody}, started \in BOOLEAN : Request(1, b, started)
    \/ \E chunk \in EngineChunks : StdoutData(1, chunk)
    \/ \E chunk \in StderrChunks : StderrData(1, chunk)
    \/ ProcError(1)
    \/ \E code \in ExitCodes \cup {SpawnFailCode} : ProcClose(1, code)

SpecEngine == Init /\ [][NextEngine]_vars

\* One request with any of the bodies, the DSM file coming and going.
NextIntake ==
    \/ \E b \in IntakeBodies, started \in BOOLEAN : Request(1, b, started)
    \/ \E chunk \in StdoutChunks : StdoutData(1, chunk)
    \/ \E chunk \in StderrChunks : StderrData(1, chunk)
    \/ ProcError(1)
    \/ \E code \in ExitCodes \cup {SpawnFailCode} : ProcClose(1, code)
    \/ DsmChange

SpecIntake == Init /\ [][NextIntake]_vars

\* The same, every spawned process ending: the runtime delivers 'error' for
\* a process that could not start, and 'close' for every process.
SpecLive ==
    /\ Init /\ [][NextIntake]_vars
    /\ WF_vars(ProcError(1))
    /\ WF_vars(\E code \in ExitCodes \cup {SpawnFailCode} : ProcClose(1, code))

\* Several valid requests in flight together.
NextConcurrent ==
    \/ \E r \in Req, started \in BOOLEAN : Request(r, FtBody, started)
    \/ \E r \in Req, chunk \in {ProgressLine, FC0Text \o "\n"} : StdoutData(r, chunk)
    \/ \E r \in Req : StderrData(r, ExtentLine)
    \/ \E r \in Req : ProcError(r)
    \/ \E r \in Req, code \in ExitCodes \cup {SpawnFailCode} : ProcClose(r, code)

SpecConcurrent == Init /\ [][NextConcurrent]_vars

\* One request whose engine prints payloads of every shape, whole or cut
\* short.
PartialLine == "{\"type\":\"FeatureCollection\",\"features\":[\n"

PayloadChunks ==
    {ProgressLine, FC3Text \o "\n", FC0Text \o "\n", PartialLine,
     FCBadTagText \o "\n", FCNoUnitsText \o "\n",
     "{\"type\":\"FeatureCollection\"}\n",
     "{\"type\":\"FeatureCollection\",\"features\":{\"count\":0}}\n"}

NextPayload ==
    \/ \E started \in BOOLEAN : Request(1, FtBody, started)
    \/ \E chunk \in PayloadChunks : StdoutData(1, chunk)
    \/ \E chunk \in StderrChunks : StderrData(1, chunk)
    \/ ProcError(1)
    \/ \E code \in ExitCodes \cup {SpawnFailCode} : ProcClose(1, code)

SpecPayload == Init /\ [][NextPayload]_vars

\* One request whose engine writes EngineOutput, the pipe delivering it in
\* pieces cut at any byte.
EngineOutput == ProgressLine \o FCAccentBytes \o "\n"

NextPiece(r) ==
    LET done == Len(proc[r].written) IN
    {SubSeq(EngineOutput, done + 1, done + k) : k \in 1..(Len(EngineOutput) - done)}

NextChunks ==
    \/ \E started \in BOOLEAN : Request(1, FtBody, started)
    \/ \E chunk \in NextPiece(1) : StdoutData(1, chunk)
    \/ \E chunk \in StderrChunks : StderrData(1, chunk)
    \/ ProcError(1)
    \/ \E code \in ExitCodes \cup {SpawnFailCode} : ProcClose(1, code)

SpecChunks == Init /\ [][NextChunks]_vars

(***************************************************************************)
(* Sanity of the model                                                     *)
(***************************************************************************)
TypeOK ==
    /\ dsmExists \in BOOLEAN
    /\ nData \in 0..MaxData
    /\ \A r \in Req :
        /\ pc[r] \in {"idle", "awaiting", "replied"}
        /\ proc[r].state \in {"none", "running", "spawnfail", "errored", "closed"}
        /\ promise[r].state \in {"none", "pending", "resolved", "rejected"}
        /\ proc[r].spawns \in {0, 1}
        /\ Len(replies[r]) <= 1

\* Every line that reaches JSON.parse is one whose result the model of
\* JSON.parse covers: a JSON text of the table, such a text ending in a
\* bracket and followed by more, such a text cut short, or text that cannot
\* begin a JSON value.
ParseDomainOK ==
    \A r \in Req :
        LET src == LastLine(stdoutData[r])
            rest == stripStart(src, JsonWhitespace)
        IN  \/ JsonStrip(src) \in DOMAIN JsonValueOf
            \/ rest = ""
            \/ CharAt(rest, 1) \notin JsonStartChars
            \/ CutInString(rest)
            \/ CutBetweenTokens(rest)
            \/ \E k \in 1..(Len(rest) - 1) :
                    /\ SubSeq(rest, 1, k) \in DOMAIN JsonValueOf
                    /\ CharAt(rest, k) \in {"}", "]"}

(***************************************************************************)
(* Vocabulary of the claims                                                *)
(***************************************************************************)
IsNumber(v) == v.t = "num"
InRange(v, lo, hi) == IsNumber(v) /\ lo <= v.n /\ v.n <= hi

\* A request as the interface documents it: lng, lat and mountHeight
\* present, numeric and in range.
DocumentedValid(b) ==
    /\ b.t = "obj"
    /\ InRange(Get(b, "lng"), -1800000000, 1800000000)
    /\ InRange(Get(b, "lat"), -900000000, 900000000)
    /\ IsNumber(Get(b, "mountHeight")) /\ Get(b, "mountHeight").n # 0

\* A request that fails input validation as documented.
DocumentedInvalid(b) ==
    /\ b.t = "obj"
    /\ \/ IsNumber(Get(b, "lng")) /\ ~InRange(Get(b, "lng"), -1800000000, 1800000000)
       \/ IsNumber(Get(b, "lat")) /\ ~InRange(Get(b, "lat"), -900000000, 900000000)
       \/ Get(b, "mountHeight") \in {JNum(0), JNull, Undefined}

\* The error string of a reply body {error: string}; "" for any other body.
ErrorOf(reply) ==
    LET e == Get(reply.body, "error") IN IF e.t = "str" THEN e.s ELSE ""

IsErrorBody(b) == b.t = "obj" /\ DOMAIN b.props = {"error"} /\ b.props.error.t = "str"

\* The one reply request r has received.
Replied(r) == Len(replies[r]) = 1
TheReply(r) == replies[r][1]

\* Request r is received in this step.
Received(r) == pc[r] = "idle" /\ pc'[r] # "idle"
\* The 'close' event of r's process is delivered in this step.
Closes(r) == proc[r].state # "closed" /\ proc'[r].state = "closed"

\* The non-empty lines of a text, each trimmed.
NonEmptyLines(text) ==
    LET lines == split(text, "\n")
        kept == SelectSeq(lines, LAMBDA l : trim(l) # "")
    IN  [i \in 1..Len(kept) |-> trim(kept[i])]

\* msg repeats no non-empty line of text.
RepeatsNoLine(msg, text) ==
    \A i \in 1..Len(NonEmptyLines(text)) : ~includes(msg, NonEmptyLines(text)[i])

(***************************************************************************)
(* Claims                                                                  *)
(***************************************************************************)

\* C1: a request with the documented body {lng, lat, mountHeight} in range,
\* made while the DSM file exists, reaches the engine without an error
\* reply; and when its engine has printed one progress line and a valid
\* FeatureCollection line and exits 0, the reply is 200 with exactly that
\* FeatureCollection.
C1_EndToEndSuccess ==
    [][\A r \in Req :
        /\ (Received(r) /\ dsmExists /\ DocumentedValid(body'[r]))
                => (pc'[r] = "awaiting" /\ replies'[r] = <<>>)
        /\ (Closes(r) /\ proc'[r].code = JNum(0) /\ DocumentedValid(body[r])
                /\ stdoutData[r] = ProgressLine \o FC3Text \o "\n")
                => replies'[r] = <<[status |-> 200, body |-> FC3]>>]_vars

\* C2: a process is spawned for a request only if its lng, lat and
\* mountHeight are present, numeric and in range.
C2_SpawnOnlyAfterValidation ==
    \A r \in Req : proc[r].state # "none" => DocumentedValid(body[r])

\* C3: every request that fails input validation (made while the DSM file
\* exists) is answered with status 400 and a body {error: string}.
C3_InvalidInputIs400 ==
    [][\A r \in Req :
        (Received(r) /\ dsmExists /\ DocumentedInvalid(body'[r]))
            => /\ pc'[r] = "replied" /\ Len(replies'[r]) = 1
               /\ replies'[r][1].status = 400
               /\ IsErrorBody(replies'[r][1].body)]_vars

\* C4: a request made while the DSM file does not exist is answered with
\* status 400 and the DSM-not-found error, and no process is spawned for it.
C4_MissingDsmIs400 ==
    [][\A r \in Req :
        (Received(r) /\ ~dsmExists)
            => /\ proc'[r].state = "none"
               /\ replies'[r] = <<[status |-> 400,
                                   body |-> JObj([error |-> JStr("DSM file not found: "
                                                                 \o DSM_PATH)])]>>]_vars

\* C5: after a non-zero exit the promise is rejected, never resolved from
\* stdout, the reply is a 500, and its body repeats no line of the standard
\* error text.
C5_NonZeroExitIs500 ==
    \A r \in Req :
        (proc[r].state = "closed" /\ proc[r].code # JNum(0))
            => /\ promise[r].state = "rejected"
               /\ Replied(r)
               /\ TheReply(r).status = 500
               /\ IsErrorBody(TheReply(r).body)
               /\ RepeatsNoLine(ErrorOf(TheReply(r)), stderrData[r])

\* C5 witness: the engine printed a valid FeatureCollection and a diagnostic,
\* exited with code 1, and the request was answered 500.
C5_Witness ==
    \E r \in Req :
        /\ proc[r].state = "closed" /\ proc[r].code = JNum(10000000)
        /\ stdoutData[r] = FC3Text \o "\n"
        /\ stderrData[r] = TraceLine
        /\ Replied(r) /\ TheReply(r).status = 500

\* A FeatureCollection as the parser accepts it.
IsFeatureCollection(v) ==
    v.t = "obj" /\ Get(v, "type") = JStr("FeatureCollection") /\ IsArray(Get(v, "features"))

\* The lines of a text that are not empty or white space only, as written.
NonBlankLines(text) == SelectSeq(split(text, "\n"), LAMBDA l : trim(l) # "")
Last(seq) == seq[Len(seq)]

\* The engine of request r ran and exited with code 0.
ExitedZero(r) == proc[r].state = "closed" /\ proc[r].started /\ proc[r].code = JNum(0)

\* Output that must be rejected, the last non-empty line taken as written.
BadOutput(text) ==
    \/ NonBlankLines(text) = <<>>
    \/ LET p == JSONparse(Last(NonBlankLines(text))) IN
       ~p.ok \/ ~IsFeatureCollection(p.value)

\* Output that must be rejected, the last non-empty line taken without the
\* white space String.prototype.trim removes from its ends.
BadTrimmedOutput(text) ==
    \/ NonEmptyLines(text) = <<>>
    \/ LET p == JSONparse(Last(NonEmptyLines(text))) IN
       ~p.ok \/ ~IsFeatureCollection(p.value)

RejectedAsInvalidFormat(r) ==
    /\ promise[r].state = "rejected"
    /\ Replied(r)
    /\ TheReply(r).status = 500
    /\ IsErrorBody(TheReply(r).body)
    /\ startsWith(ErrorOf(TheReply(r)), "Invalid viewshed format:")

\* C6, as claimed: exit code 0 with output that is empty, white space only,
\* or whose last non-empty line is not valid JSON or not a FeatureCollection
\* with a features array, is answered 500 "Invalid viewshed format: ...".
C6_BadOutputIs500 ==
    \A r \in Req : (ExitedZero(r) /\ BadOutput(stdoutData[r])) => RejectedAsInvalidFormat(r)

\* C6, amended: the same, the last non-empty line being judged after the
\* white space that trim removes has been taken off its ends.
C6_BadTrimmedOutputIs500 ==
    \A r \in Req :
        (ExitedZero(r) /\ BadTrimmedOutput(stdoutData[r])) => RejectedAsInvalidFormat(r)

\* C6 witness: the engine printed white space only and exited 0; the reply
\* is the 500 with the empty-response message.
C6_Witness ==
    \E r \in Req :
        /\ ExitedZero(r) /\ stdoutData[r] = "  \r\n"
        /\ TheReply(r) = [status |-> 500,
                          body |-> JObj([error |-> JStr(
                              "Invalid viewshed format: Empty response from Python script")])]

\* C7: when the engine exits 0 and the last non-empty line of its output is
\* a valid FeatureCollection JSON text, the promise resolves with exactly the
\* value that line encodes, whatever the lines before it and the blank lines
\* after it.
C7_LastLineIsResult ==
    \A r \in Req :
        (ExitedZero(r) /\ ~BadOutput(stdoutData[r]))
            => LET v == JSONparse(Last(NonBlankLines(stdoutData[r]))).value IN
               /\ promise[r] = Resolved(v)
               /\ replies[r] = <<[status |-> 200, body |-> v]>>

\* C7 witness: a progress line, the FeatureCollection line, then a line of
\* white space; the request resolved with the FeatureCollection.
C7_Witness ==
    \E r \in Req :
        /\ ExitedZero(r)
        /\ stdoutData[r] = ProgressLine \o FC3Text \o "\n" \o "  \r\n"
        /\ promise[r] = Resolved(FC3)

\* Why an output is rejected: "empty", "not JSON", "not a FeatureCollection",
\* or "none" when it is accepted.
FailureReason(text) ==
    IF NonEmptyLines(text) = <<>> THEN "empty"
    ELSE LET p == JSONparse(Last(NonEmptyLines(text))) IN
         IF ~p.ok THEN "not JSON"
         ELSE IF ~IsFeatureCollection(p.value) THEN "not a FeatureCollection"
         ELSE "none"

\* C8: two requests whose engines exited 0 with output rejected for the same
\* reason receive the same reply, whatever the text of the output.
C8_ReplyIndependentOfOutput ==
    \A r1, r2 \in Req :
        (/\ ExitedZero(r1) /\ ExitedZero(r2)
         /\ FailureReason(stdoutData[r1]) # "none"
         /\ FailureReason(stdoutData[r1]) = FailureReason(stdoutData[r2]))
            => replies[r1] = replies[r2]

\* C9: a request whose process could not be started is answered, at the
\* 'error' event, with the 500 "Failed to start viewshed calculation", and
\* the 'close' event that follows changes nothing.
C9_StartFailureIsUnavailable ==
    \A r \in Req :
        (proc[r].state # "none" /\ ~proc[r].started)
            => IF proc[r].state = "spawnfail"
               THEN promise[r] = Pending /\ replies[r] = <<>>
               ELSE /\ promise[r].exc.message = "Failed to start viewshed calculation"
                    /\ replies[r] = <<[status |-> 500,
                                       body |-> JObj([error |-> JStr(
                                           "Failed to start viewshed calculation")])]>>

\* C9 witness: both events of a failed start have been delivered.
C9_Witness ==
    \E r \in Req :
        /\ ~proc[r].started /\ proc[r].state = "closed" /\ proc[r].code = SpawnFailCode
        /\ Replied(r)
        /\ ErrorOf(TheReply(r)) = "Failed to start viewshed calculation"

\* C10: when the engine exits non-zero and its standard error says that the
\* point is outside the DSM extent, the reply is a 400.
C10_OutOfExtentIs400 ==
    \A r \in Req :
        (/\ proc[r].state = "closed" /\ proc[r].started /\ proc[r].code # JNum(0)
         /\ includes(stderrData[r], "outside the DSM extent"))
            => Replied(r) /\ TheReply(r).status = 400

\* maxDistance as the interface documents it: absent, or a positive number.
MaxDistanceOK(b) ==
    \/ Get(b, "maxDistance") = Undefined
    \/ IsNumber(Get(b, "maxDistance")) /\ Get(b, "maxDistance").n > 0

\* C11: no process is spawned for a request whose maxDistance is present
\* but is not a positive number.  (The radius used when maxDistance is absent
\* is chosen by the engine: the service passes no radius.)
C11_MaxDistanceValidated ==
    \A r \in Req : proc[r].state # "none" => MaxDistanceOK(body[r])

\* The decimal string of the number n / 10^7: digits, and a fraction part
\* when there is one.
DecimalString(n) ==
    LET a == IF n < 0 THEN -n ELSE n IN
    (IF n < 0 THEN "-" ELSE "") \o NatToString(a \div 10000000)
    \o (IF a % 10000000 = 0 THEN "" ELSE "." \o FracDigits(a % 10000000))

\* C12: every spawned process receives, after the script path, the DSM path
\* and the decimal strings of the request's lng, lat and mount height (under
\* either spelling of the height field), in that order.
C12_SpawnArguments ==
    \A r \in Req :
        proc[r].state # "none"
            => LET b == body[r]
                   a == proc[r].args
               IN  /\ Len(a) = 5
                   /\ a[1] = "./process_dsm.py"
                   /\ a[2] = DSM_PATH
                   /\ IsNumber(Get(b, "lng")) /\ a[3] = DecimalString(Get(b, "lng").n)
                   /\ IsNumber(Get(b, "lat")) /\ a[4] = DecimalString(Get(b, "lat").n)
                   /\ \E h \in {Get(b, "mountHeight"), Get(b, "mountHeightFt")} :
                          IsNumber(h) /\ a[5] = DecimalString(h.n)

\* Some part of request r's state changes in this step.
Changed(r) ==
    <<pc[r], body[r], proc[r], stdoutData[r], stderrData[r], promise[r], replies[r]>>
        # <<pc'[r], body'[r], proc'[r], stdoutData'[r], stderrData'[r], promise'[r],
             replies'[r]>>

\* C13: with several requests in flight, no event of one request touches the
\* process, the buffers, the promise or the reply of another, and the reply
\* a request receives when its process closes is the one its own exit code
\* and its own process's output determine.
C13_RequestsIsolated ==
    [][\A r \in Req :
        /\ \A q \in Req \ {r} : ~(Changed(r) /\ Changed(q))
        /\ (Closes(r) /\ proc[r].started)
              => replies'[r] = <<ReplyFor(OnClose(proc'[r].code,
                                                  BufferToString(proc[r].written)))>>]_vars

\* C13 witness: two requests in flight together, both engines having printed
\* and exited 0, one answered 200 and the other 500.
C13_Witness ==
    \E r1, r2 \in Req :
        /\ r1 # r2 /\ ExitedZero(r1) /\ ExitedZero(r2)
        /\ proc[r1].written = ProgressLine \o FC0Text \o "\n"
        /\ proc[r2].written = ProgressLine
        /\ Replied(r1) /\ TheReply(r1) = [status |-> 200, body |-> FC0]
        /\ Replied(r2) /\ TheReply(r2).status = 500

\* C14: the body of every 200 reply is an object whose type is
\* "FeatureCollection" and whose features is an array; output cut short or
\* failing either test is never sent as a success.
C14_SuccessIsFeatureCollection ==
    \A r \in Req : \A i \in 1..Len(replies[r]) :
        replies[r][i].status = 200
            => /\ IsFeatureCollection(replies[r][i].body)
               /\ ExitedZero(r)
               /\ promise[r] = Resolved(replies[r][i].body)

\* C14 witness: the engine printed a payload cut short and then a whole
\* FeatureCollection, exited 0, and the reply is the 200 with the latter.
C14_Witness ==
    \E r \in Req :
        /\ ExitedZero(r)
        /\ proc[r].written = PartialLine \o FC0Text \o "\n"
        /\ Replied(r) /\ TheReply(r) = [status |-> 200, body |-> FC0]

\* The three tags of the response type.
FeatureTags == {"observer", "viewshed", "analysis_range"}

\* Every feature of a response body carries one of the three tags, and an
\* observer or analysis_range feature its units.
FeaturesWellTagged(v) ==
    \A i \in 1..Len(Get(v, "features").items) :
        LET properties == Get(Get(v, "features").items[i], "properties")
            tag == Get(properties, "type")
        IN  /\ tag.t = "str" /\ tag.s \in FeatureTags
            /\ tag.s \in {"observer", "analysis_range"}
                   => Get(properties, "units") \in {JStr("feet"), JStr("meters")}

\* C15: in every 200 reply each feature's properties.type is observer,
\* viewshed or analysis_range and the fields its tag requires are present.
C15_FeaturesTagged ==
    \A r \in Req :
        (Replied(r) /\ TheReply(r).status = 200) => FeaturesWellTagged(TheReply(r).body)

\* A body in which lng or lat is absent, or lng, lat or the mount height
\* (under either spelling) is not a number.
MissingOrNonNumeric(b) ==
    /\ b.t = "obj"
    /\ \/ ~IsNumber(Get(b, "lng"))
       \/ ~IsNumber(Get(b, "lat"))
       \/ ~IsNumber(Get(b, "mountHeight")) /\ ~IsNumber(Get(b, "mountHeightFt"))

\* C16: a request in which lng or lat is absent, or lng, lat or the mount
\* height is not a number, made while the DSM file exists, is rejected by
\* the validator with a BadRequestException, and no process is spawned.
C16_MissingOrNonNumericIsInvalidInput ==
    [][\A r \in Req :
        (Received(r) /\ dsmExists /\ MissingOrNonNumeric(body'[r]))
            => /\ promise'[r].state = "rejected"
               /\ promise'[r].exc.name = "BadRequestException"
               /\ proc'[r].state = "none"]_vars

\* The failures of the input checks.
InvalidInputFailures ==
    {BadRequestException("Invalid longitude or latitude values"),
     BadRequestException("Mount height is required")}

\* A body the input checks of the service reject.
FailsInputChecks(b) ==
    /\ b.t = "obj"
    /\ ~CheckParams(b, TRUE).ok

\* C17, as claimed: a request that is invalid and is made while the DSM file
\* is missing fails with the failure of the input checks.
C17_ValidationBeforeDsm ==
    [][\A r \in Req :
        (Received(r) /\ ~dsmExists /\ DocumentedInvalid(body'[r])
                /\ FailsInputChecks(body'[r]))
            => promise'[r].state = "rejected"
               /\ promise'[r].exc \in InvalidInputFailures]_vars

\* C17, amended: the check of the DSM file comes first.  A request with a
\* body, made while the file is missing, fails with the DSM-not-found
\* failure whatever its fields, and the input checks decide only while the
\* file exists.
C17_DsmCheckedFirst ==
    [][\A r \in Req :
        (Received(r) /\ body'[r].t = "obj")
            => /\ ~dsmExists
                   => /\ promise'[r] = Rejected(BadRequestException(
                                           "DSM file not found: " \o DSM_PATH))
                      /\ proc'[r].state = "none"
               /\ (dsmExists /\ FailsInputChecks(body'[r]))
                   => /\ promise'[r].state = "rejected"
                      /\ promise'[r].exc \in InvalidInputFailures
                      /\ proc'[r].state = "none"]_vars

\* C17 witness: a request with lat 95 was received while the DSM file was
\* missing and failed with the DSM-not-found failure.
C17_Witness ==
    \E r \in Req :
        /\ body[r] = Lat95Body
        /\ promise[r] = Rejected(BadRequestException("DSM file not found: " \o DSM_PATH))
        /\ Replied(r)

\* C18: nothing is resolved, rejected or answered while the process runs,
\* and after exit code 0 the outcome is the one the whole output of the
\* engine, decoded as one text, gives: the same however it arrived in chunks.
C18_ParsedOnceFromWholeOutput ==
    \A r \in Req :
        /\ proc[r].state = "running" => (promise[r] = Pending /\ replies[r] = <<>>)
        /\ ExitedZero(r) => promise[r] = OnClose(JNum(0), BufferToString(proc[r].written))

\* C19: at most one process is spawned for a request, and a request answered
\* with a failure has no process running.
C19_AtMostOneSpawn ==
    \A r \in Req :
        /\ proc[r].spawns <= 1
        /\ (Replied(r) /\ TheReply(r).status # 200)
               => proc[r].state \in {"none", "errored", "closed"}

\* C19 witness: the engine exited with code 1 and the request was answered
\* 500 after its one spawn.
C19_Witness ==
    \E r \in Req :
        /\ proc[r].state = "closed" /\ proc[r].started /\ proc[r].code = JNum(10000000)
        /\ proc[r].spawns = 1
        /\ Replied(r) /\ TheReply(r).status = 500

Settled(p) == p.state \in {"resolved", "rejected"}

\* C20: a request has one reply exactly when its promise is settled and none
\* before; and once the promise is settled, no later event changes the
\* outcome or sends another reply.
C20_OneOutcomeOneReply ==
    [][\A r \in Req :
        /\ Settled(promise[r]) => (promise'[r] = promise[r] /\ replies'[r] = replies[r])
        /\ Len(replies'[r]) = (IF Settled(promise'[r]) THEN 1 ELSE 0)
        /\ Settled(promise'[r]) => replies'[r] = <<ReplyFor(promise'[r])>>]_vars

\* C20 witness: the promise was rejected by the 'error' handler, the 'close'
\* event followed, and the outcome and the one reply are still those of the
\* 'error' handler.
C20_Witness ==
    \E r \in Req :
        /\ proc[r].state = "closed" /\ proc[r].code = SpawnFailCode
        /\ promise[r] = OnError
        /\ replies[r] = <<ReplyFor(OnError)>>

\* C21: every spawned process ending, every request received is eventually
\* answered: its promise is settled and its one reply sent, on every path
\* (failed check, missing DSM file, exception while the arguments are built,
\* failed start, non-zero exit, rejected output, success).
C21_EveryRequestAnswered ==
    \A r \in Req : (pc[r] # "idle") ~> (Settled(promise[r]) /\ Replied(r))

\* C21 witness: a request that waited for its engine has been answered after
\* the engine printed a progress line and closed with exit code 0.
C21_Witness ==
    \E r \in Req :
        /\ pc[r] = "replied" /\ proc[r].state = "closed" /\ proc[r].started
        /\ proc[r].code = JNum(0) /\ proc[r].written = ProgressLine
        /\ Settled(promise[r]) /\ Replied(r)

====
